---- MODULE Spec2Model ----
(***************************************************************************)
(* A model of the pauli crate: the phase group (phase.rs), the single      *)
(* qubit Paulis (pauli.rs), the dense operator with a global phase         *)
(* (operators/dense.rs) and the sparse operator backed by a sprs CsVec     *)
(* (operator.rs).                                                          *)
(*                                                                         *)
(* Every operation of the crate is a pure function of immutable values.    *)
(* Each is an operator below, computed the way the code computes it, and   *)
(* an action applies it to the values a caller holds and records the call  *)
(* (its name, its result) in `call`.  A result is a record tagged "Ok",    *)
(* "Err" (a returned PauliError) or "Panic" (the call aborted).            *)
(***************************************************************************)
EXTENDS Integers, Sequences, FiniteSets, TLC

VARIABLES
  p, q,     \* two Paulis held by the caller
  ph,       \* a Phase held by the caller
  da, db,   \* two dense operators held by the caller
  sa, sb,   \* two sparse operators held by the caller
  tn,       \* the arguments handed to PauliOperator::try_new / new
  call      \* the last call: [op |-> name, res |-> result, ...]

vars == <<p, q, ph, da, db, sa, sb, tn, call>>

(***************************************************************************)
(* Bounds of the model.                                                    *)
(***************************************************************************)
\* longest dense operator multiplied by a single Pauli or by a uniform operator
MaxUniformLen == 3

\* longest sparse operator, and longest positions / values list of a construction
MaxLen == 2
\* longest dense operator
MaxDenseLen == 2

Min(a, b) == IF a < b THEN a ELSE b

SeqsUpTo(S, n) == UNION {[1..k -> S] : k \in 0..n}

NoCall == [op |-> "none"]

(***************************************************************************)
(* phase.rs                                                                *)
(***************************************************************************)
\* type Scalar = i8: two's complement on 8 bits
Wrap8(n) == ((n + 128) % 256) - 128

Complex(re, im) == [re |-> re, im |-> im]

One == Complex(1, 0)

MinusOne == Complex(-1, 0)

PhaseI == Complex(0, 1)

MinusI == Complex(0, -1)

\* the four values the constructors build
PhaseUnits == {One, MinusOne, PhaseI, MinusI}

\* A plausible slip: the components are added instead of multiplied.
PhaseMulAdds(a, b) ==
  Complex(Wrap8(a.re + b.re), Wrap8(a.im + b.im))

\* impl Mul<Phase> for Phase: Self(self.0 * other.0), the product of two
\* Complex<i8>: (a + bi)(c + di) = (ac - bd) + (ad + bc)i
PhaseMul(a, b) ==
  Complex(Wrap8(a.re * b.re - a.im * b.im), Wrap8(a.re * b.im + a.im * b.re))

(***************************************************************************)
(* pauli.rs                                                                *)
(***************************************************************************)
Pauli == {"I", "X", "Y", "Z"}

\* A plausible slip: the test other == I is left out.
PauliCommutesWithForgetsOther(a, b) == a = "I" \/ a = b

\* Pauli::commutes_with
PauliCommutesWith(a, b) == a = "I" \/ b = "I" \/ a = b

\* Pauli::anticommutes_with
PauliAnticommutesWith(a, b) == ~PauliCommutesWith(a, b)

\* Pauli::is_non_trivial
IsNonTrivial(a) == a # "I"

\* A plausible slip in the table: (Y, X) given the phase of (X, Y).
MultiplyWithPhaseYXSlip(a, b) ==
  IF a = "I" THEN <<One, b>>
  ELSE IF b = "I" THEN <<One, a>>
  ELSE CASE a = "X" /\ b = "X" -> <<One, "I">>
         [] a = "X" /\ b = "Y" -> <<PhaseI, "Z">>
         [] a = "X" /\ b = "Z" -> <<MinusI, "Y">>
         [] a = "Y" /\ b = "X" -> <<PhaseI, "Z">>
         [] a = "Y" /\ b = "Y" -> <<One, "I">>
         [] a = "Y" /\ b = "Z" -> <<PhaseI, "X">>
         [] a = "Z" /\ b = "X" -> <<PhaseI, "Y">>
         [] a = "Z" /\ b = "Y" -> <<MinusI, "X">>
         [] a = "Z" /\ b = "Z" -> <<One, "I">>

\* Pauli::multiply_with_phase: the match, arm by arm, in its order
MultiplyWithPhase(a, b) ==
  IF a = "I" THEN <<One, b>>
  ELSE IF b = "I" THEN <<One, a>>
  ELSE CASE a = "X" /\ b = "X" -> <<One, "I">>
         [] a = "X" /\ b = "Y" -> <<PhaseI, "Z">>
         [] a = "X" /\ b = "Z" -> <<MinusI, "Y">>
         [] a = "Y" /\ b = "X" -> <<MinusI, "Z">>
         [] a = "Y" /\ b = "Y" -> <<One, "I">>
         [] a = "Y" /\ b = "Z" -> <<PhaseI, "X">>
         [] a = "Z" /\ b = "X" -> <<PhaseI, "Y">>
         [] a = "Z" /\ b = "Y" -> <<MinusI, "X">>
         [] a = "Z" /\ b = "Z" -> <<One, "I">>

\* A plausible slip in the match: the arm (Y, Z) gives Z.
RECURSIVE PauliMulStepsYZSlip(_, _, _)
PauliMulStepsYZSlip(a, b, swaps) ==
  IF a = "I" THEN [val |-> b, swaps |-> swaps]
  ELSE IF a = b THEN [val |-> "I", swaps |-> swaps]
  ELSE IF a = "X" /\ b = "Y" THEN [val |-> "Z", swaps |-> swaps]
  ELSE IF a = "Y" /\ b = "Z" THEN [val |-> "Z", swaps |-> swaps]
  ELSE IF a = "Z" /\ b = "X" THEN [val |-> "Y", swaps |-> swaps]
  ELSE PauliMulStepsYZSlip(b, a, swaps + 1)

\* impl Mul<Pauli> for Pauli: the match, arm by arm, with its q * p fallback;
\* swaps counts the recursive calls made so far
RECURSIVE PauliMulSteps(_, _, _)
PauliMulSteps(a, b, swaps) ==
  IF a = "I" THEN [val |-> b, swaps |-> swaps]
  ELSE IF a = b THEN [val |-> "I", swaps |-> swaps]
  ELSE IF a = "X" /\ b = "Y" THEN [val |-> "Z", swaps |-> swaps]
  ELSE IF a = "Y" /\ b = "Z" THEN [val |-> "X", swaps |-> swaps]
  ELSE IF a = "Z" /\ b = "X" THEN [val |-> "Y", swaps |-> swaps]
  ELSE PauliMulSteps(b, a, swaps + 1)

\* a * b
PauliMul(a, b) == PauliMulSteps(a, b, 0).val

(***************************************************************************)
(* operators/dense.rs                                                      *)
(***************************************************************************)
Ok(v) == [tag |-> "Ok", val |-> v]

Panic == [tag |-> "Panic"]

\* DensePauliOperator { paulis, phase }
Dense(phase, paulis) == [paulis |-> paulis, phase |-> phase]

\* DensePauliOperator::new
DenseNew == Dense(One, <<>>)

\* DensePauliOperator::with_paulis
WithPaulis(paulis) == Dense(One, paulis)

\* DensePauliOperator::with_phase_and_paulis
WithPhaseAndPaulis(phase, paulis) == Dense(phase, paulis)

\* DensePauliOperator::len
DenseLen(a) == Len(a.paulis)

\* self.paulis().zip(other.paulis()).filter(|(p, q)| p.anticommutes_with(*q)).count():
\* zip stops at the end of the shorter sequence
DenseAnticommutingCount(a, b) ==
  Cardinality({k \in 1..Min(DenseLen(a), DenseLen(b)) :
                 PauliAnticommutesWith(a.paulis[k], b.paulis[k])})

\* A plausible slip: the length assertion is left out, and zip ignores the tail
\* of the longer operand.
DenseCommutesWithNoAssert(a, b) ==
  Ok(DenseAnticommutingCount(a, b) % 2 = 0)

\* DensePauliOperator::commutes_with
DenseCommutesWith(a, b) ==
  IF DenseLen(a) # DenseLen(b) THEN Panic
  ELSE Ok(DenseAnticommutingCount(a, b) % 2 = 0)

\* A plausible slip: any anticommuting position makes the operators anticommute.
DenseAnticommutesWithAny(a, b) ==
  IF DenseLen(a) # DenseLen(b) THEN Panic
  ELSE Ok(DenseAnticommutingCount(a, b) >= 1)

\* DensePauliOperator::anticommutes_with
DenseAnticommutesWith(a, b) ==
  IF DenseLen(a) # DenseLen(b) THEN Panic
  ELSE Ok(DenseAnticommutingCount(a, b) % 2 = 1)

\* The fold of operator * operator from position k on: acc is (total_phase, paulis).
RECURSIVE DenseMulFold(_, _, _, _)
DenseMulFold(ps, qs, k, acc) ==
  IF k > Min(Len(ps), Len(qs)) THEN acc
  ELSE LET m == MultiplyWithPhase(ps[k], qs[k])
       IN DenseMulFold(ps, qs, k + 1, <<PhaseMul(acc[1], m[1]), Append(acc[2], m[2])>>)

\* A plausible slip: the operands' own phases are not multiplied in.
DenseMulDropsPhases(a, b) ==
  IF DenseLen(a) # DenseLen(b) THEN Panic
  ELSE LET f == DenseMulFold(a.paulis, b.paulis, 1, <<One, <<>>>>)
       IN Ok(Dense(f[1], f[2]))

\* impl Mul<&DensePauliOperator> for &DensePauliOperator
DenseMul(a, b) ==
  IF DenseLen(a) # DenseLen(b) THEN Panic
  ELSE LET f == DenseMulFold(a.paulis, b.paulis, 1, <<One, <<>>>>)
       IN Ok(Dense(PhaseMul(PhaseMul(f[1], a.phase), b.phase), f[2]))

\* impl Mul<Phase> for &DensePauliOperator
DenseMulPhase(a, phase) == Dense(PhaseMul(a.phase, phase), a.paulis)

\* The fold of operator * Pauli from position k on.
RECURSIVE DenseMulPauliFold(_, _, _, _)
DenseMulPauliFold(ps, pauli, k, acc) ==
  IF k > Len(ps) THEN acc
  ELSE LET m == MultiplyWithPhase(ps[k], pauli)
       IN DenseMulPauliFold(ps, pauli, k + 1, <<PhaseMul(acc[1], m[1]), Append(acc[2], m[2])>>)

\* A plausible slip: the phases of the positions are not multiplied in.
DenseMulPauliKeepsPhase(a, pauli) ==
  Dense(a.phase, DenseMulPauliFold(a.paulis, pauli, 1, <<One, <<>>>>)[2])

\* impl Mul<Pauli> for &DensePauliOperator
DenseMulPauli(a, pauli) ==
  LET f == DenseMulPauliFold(a.paulis, pauli, 1, <<One, <<>>>>)
  IN Dense(PhaseMul(a.phase, f[1]), f[2])

\* impl_commutative_mul!(Phase): phase * operator is operator * phase
PhaseMulDense(phase, a) == DenseMulPhase(a, phase)

\* A plausible variant: pauli * operator multiplies the Pauli from the left at
\* every position, pauli.multiply_with_phase(a[k]).
PauliMulDenseFromLeft(pauli, a) ==
  DenseMul(WithPaulis([k \in 1..DenseLen(a) |-> pauli]), a).val

\* impl_commutative_mul!(Pauli): pauli * operator is operator * pauli
PauliMulDense(pauli, a) == DenseMulPauli(a, pauli)

(***************************************************************************)
(* operator.rs: the sparse operator.  Its backing CsVec (crate sprs) is    *)
(* the record [dim, indices, data].                                        *)
(***************************************************************************)
Err(e) == [tag |-> "Err", err |-> e]

\* PauliError::IncompatibleLength
IncompatibleLength(l0, l1) == [kind |-> "IncompatibleLength", fst |-> l0, snd |-> l1]

\* PauliError::OutOfBound
OutOfBound(pos, len) == [kind |-> "OutOfBound", fst |-> pos, snd |-> len]

CsVec(n, indices, data) == [dim |-> n, indices |-> indices, data |-> data]

\* Inserts the pair <<i, v>> in a list of pairs sorted by index, after the
\* pairs of the same index (the sort is stable).
RECURSIVE InsertPair(_, _)
InsertPair(sorted, pair) ==
  IF sorted = <<>> THEN <<pair>>
  ELSE IF pair[1] < Head(sorted)[1] THEN <<pair>> \o sorted
  ELSE <<Head(sorted)>> \o InsertPair(Tail(sorted), pair)

\* The (index, value) pairs of two lists of one length, sorted by index.
RECURSIVE SortPairs(_, _, _)
SortPairs(indices, data, k) ==
  IF k = 0 THEN <<>>
  ELSE InsertPair(SortPairs(indices, data, k - 1), <<indices[k], data[k]>>)

StrictlyIncreasing(s) == \A k \in 1..(Len(s) - 1) : s[k] < s[k + 1]

\* A list of pairs sorted by index without the pairs that repeat the index of
\* the pair before them.
RECURSIVE DedupPairs(_)
DedupPairs(sorted) ==
  IF Len(sorted) <= 1 THEN sorted
  ELSE LET rest == DedupPairs(Tail(sorted))
       IN IF Head(sorted)[1] = Head(rest)[1]
          THEN <<Head(sorted)>> \o Tail(rest)
          ELSE <<Head(sorted)>> \o rest

\* What CsVec::new may do with the lists it is handed.  The sprs crate is not
\* part of the repository, so each of these is possible: the pairs are sorted
\* by index first ("sorts"), the lists are taken as given ("strict"), or the
\* pairs are sorted and a repeated index keeps its first pair ("dedups", the
\* reading of the specification: construction deduplicates and sorts).
SprsBuilds == {"sorts", "strict", "dedups"}

\* CsVec::new(n, indices, data) of sprs, on the build given.  After the
\* build's preparation of the lists it refuses, with a panic, lists of
\* different lengths, indices that are not strictly increasing, and an index
\* out of bounds.  Lists that are strictly increasing and in bounds are
\* stored as given on every build.
CsVecNew(n, indices, data, build) ==
  IF Len(indices) # Len(data) THEN Panic
  ELSE LET given == [k \in 1..Len(indices) |-> <<indices[k], data[k]>>]
           sorted == SortPairs(indices, data, Len(indices))
           pairs == CASE build = "strict" -> given
                      [] build = "sorts" -> sorted
                      [] build = "dedups" -> DedupPairs(sorted)
           idx == [k \in 1..Len(pairs) |-> pairs[k][1]]
           dat == [k \in 1..Len(pairs) |-> pairs[k][2]]
       IN IF ~StrictlyIncreasing(idx) THEN Panic
          ELSE IF \E k \in 1..Len(idx) : idx[k] >= n THEN Panic
          ELSE Ok(CsVec(n, idx, dat))

\* positions.iter().find(|pos| **pos >= length): the first such position
RECURSIVE FindOutOfBound(_, _, _)
FindOutOfBound(positions, length, k) ==
  IF k > Len(positions) THEN [found |-> FALSE]
  ELSE IF positions[k] >= length THEN [found |-> TRUE, pos |-> positions[k]]
  ELSE FindOutOfBound(positions, length, k + 1)

\* A plausible slip: the bound check comes before the count check.
TryNewBoundFirst(length, positions, paulis, build) ==
  LET oob == FindOutOfBound(positions, length, 1)
  IN IF oob.found THEN Err(OutOfBound(oob.pos, length))
     ELSE IF Len(positions) # Len(paulis)
     THEN Err(IncompatibleLength(Len(positions), Len(paulis)))
     ELSE CsVecNew(length, positions, paulis, build)

\* PauliOperator::try_new
TryNew(length, positions, paulis, build) ==
  IF Len(positions) # Len(paulis)
  THEN Err(IncompatibleLength(Len(positions), Len(paulis)))
  ELSE LET oob == FindOutOfBound(positions, length, 1)
       IN IF oob.found THEN Err(OutOfBound(oob.pos, length))
          ELSE CsVecNew(length, positions, paulis, build)

\* PauliOperator::new: try_new(..).expect("invalid operator")
New(length, positions, paulis, build) ==
  LET r == TryNew(length, positions, paulis, build)
  IN IF r.tag = "Ok" THEN r ELSE Panic

\* PauliOperator::empty
Empty == CsVec(0, <<>>, <<>>)

\* PauliOperator::len
SparseLen(a) == a.dim

\* PauliOperator::weight: self.paulis.nnz()
Weight(a) == Len(a.data)

\* PauliOperator::non_trivial_positions: self.paulis.indices()
NonTrivialPositions(a) == a.indices

\* PauliOperator::get: the stored value, else I within the length, else None
Get(a, position) ==
  IF \E k \in 1..Len(a.indices) : a.indices[k] = position
  THEN [some |-> TRUE,
        val |-> a.data[CHOOSE k \in 1..Len(a.indices) : a.indices[k] = position]]
  ELSE IF position < SparseLen(a) THEN [some |-> TRUE, val |-> "I"]
  ELSE [some |-> FALSE]

\* a.iter().nnz_or_zip(b.iter()): the merge of the two sorted entry lists from
\* entries i and j on; each item is Left, Right or Both with its position.
RECURSIVE NnzOrZip(_, _, _, _)
NnzOrZip(a, b, i, j) ==
  IF i > Len(a.indices) /\ j > Len(b.indices) THEN <<>>
  ELSE IF j > Len(b.indices)
  THEN <<[side |-> "Left", pos |-> a.indices[i], l |-> a.data[i]]>>
       \o NnzOrZip(a, b, i + 1, j)
  ELSE IF i > Len(a.indices)
  THEN <<[side |-> "Right", pos |-> b.indices[j], r |-> b.data[j]]>>
       \o NnzOrZip(a, b, i, j + 1)
  ELSE IF a.indices[i] < b.indices[j]
  THEN <<[side |-> "Left", pos |-> a.indices[i], l |-> a.data[i]]>>
       \o NnzOrZip(a, b, i + 1, j)
  ELSE IF a.indices[i] = b.indices[j]
  THEN <<[side |-> "Both", pos |-> a.indices[i], l |-> a.data[i], r |-> b.data[j]]>>
       \o NnzOrZip(a, b, i + 1, j + 1)
  ELSE <<[side |-> "Right", pos |-> b.indices[j], r |-> b.data[j]]>>
       \o NnzOrZip(a, b, i, j + 1)

\* a.iter().nnz_zip(b.iter()): the items of the merge present on both sides
NnzZip(a, b) == SelectSeq(NnzOrZip(a, b, 1, 1), LAMBDA e : e.side = "Both")

\* A plausible slip: operands of different lengths are refused, as in multiply_with.
SparseCommutesWithSameLength(a, b) ==
  SparseLen(a) = SparseLen(b)
  /\ Len(SelectSeq(NnzZip(a, b), LAMBDA e : PauliAnticommutesWith(e.l, e.r))) % 2 = 0

\* PauliOperator::commutes_with
SparseCommutesWith(a, b) ==
  Len(SelectSeq(NnzZip(a, b), LAMBDA e : PauliAnticommutesWith(e.l, e.r))) % 2 = 0

\* PauliOperator::anticommutes_with
SparseAnticommutesWith(a, b) == ~SparseCommutesWith(a, b)

\* the entries of a as (position, Pauli) pairs: self.iter()
Entries(a) == [k \in 1..Len(a.indices) |-> <<a.indices[k], a.data[k]>>]

\* A plausible slip: an item present on both sides keeps the left Pauli.
MergedPauliTakesLeft(e) ==
  CASE e.side = "Left" -> <<e.pos, e.l>>
    [] e.side = "Right" -> <<e.pos, e.r>>
    [] e.side = "Both" -> <<e.pos, e.l>>

\* the closure of multiply_with's map: the (position, Pauli) of a merged item
MergedPauli(e) ==
  CASE e.side = "Left" -> <<e.pos, e.l>>
    [] e.side = "Right" -> <<e.pos, e.r>>
    [] e.side = "Both" -> <<e.pos, PauliMul(e.l, e.r)>>

\* A plausible slip: the filter of trivial products is left out.
MultiplyWithKeepsIdentity(a, b) ==
  IF SparseLen(a) # SparseLen(b)
  THEN Err(IncompatibleLength(SparseLen(a), SparseLen(b)))
  ELSE LET merged == NnzOrZip(a, b, 1, 1)
           mapped == [k \in 1..Len(merged) |-> MergedPauli(merged[k])]
       IN New(SparseLen(a),
              [k \in 1..Len(mapped) |-> mapped[k][1]],
              [k \in 1..Len(mapped) |-> mapped[k][2]], "sorts")

\* A plausible slip: the lengths are not compared.
MultiplyWithNoLengthCheck(a, b) ==
  LET merged == NnzOrZip(a, b, 1, 1)
      mapped == [k \in 1..Len(merged) |-> MergedPauli(merged[k])]
      kept == SelectSeq(mapped, LAMBDA e : IsNonTrivial(e[2]))
  IN New(SparseLen(a),
         [k \in 1..Len(kept) |-> kept[k][1]],
         [k \in 1..Len(kept) |-> kept[k][2]], "sorts")

\* A plausible slip: the entries of the two operands are chained, not merged.
MultiplyWithArgsChained(a, b) ==
  LET chained == Entries(a) \o Entries(b)
      kept == SelectSeq(chained, LAMBDA e : IsNonTrivial(e[2]))
  IN [length |-> SparseLen(a),
      positions |-> [k \in 1..Len(kept) |-> kept[k][1]],
      paulis |-> [k \in 1..Len(kept) |-> kept[k][2]]]

\* multiply_with, else branch: the length and the (positions, paulis) that the
\* merge, the map and the filter give, unzipped, as handed to PauliOperator::new
MultiplyWithArgs(a, b) ==
  LET merged == NnzOrZip(a, b, 1, 1)
      mapped == [k \in 1..Len(merged) |-> MergedPauli(merged[k])]
      kept == SelectSeq(mapped, LAMBDA e : IsNonTrivial(e[2]))
  IN [length |-> SparseLen(a),
      positions |-> [k \in 1..Len(kept) |-> kept[k][1]],
      paulis |-> [k \in 1..Len(kept) |-> kept[k][2]]]

\* PauliOperator::multiply_with
MultiplyWith(a, b) ==
  IF SparseLen(a) # SparseLen(b)
  THEN Err(IncompatibleLength(SparseLen(a), SparseLen(b)))
  ELSE LET args == MultiplyWithArgs(a, b)
       IN New(args.length, args.positions, args.paulis, "sorts")

\* PauliOperator::x_part
XPart(a) ==
  LET kept == SelectSeq(Entries(a), LAMBDA e : e[2] # "Z")
  IN New(SparseLen(a),
         [k \in 1..Len(kept) |-> kept[k][1]],
         [k \in 1..Len(kept) |-> "X"], "sorts")

\* PauliOperator::z_part
ZPart(a) ==
  LET kept == SelectSeq(Entries(a), LAMBDA e : e[2] # "X")
  IN New(SparseLen(a),
         [k \in 1..Len(kept) |-> kept[k][1]],
         [k \in 1..Len(kept) |-> "Z"], "sorts")

\* PauliOperator::partition_x_and_z: (self.x_part(), self.z_part())
PartitionXAndZ(a) == [x |-> XPart(a), z |-> ZPart(a)]

(***************************************************************************)
(* The values a caller can build.                                          *)
(***************************************************************************)
\* the dense operators with_phase_and_paulis builds within the bound
DenseOps ==
  {WithPhaseAndPaulis(x, ps) : x \in PhaseUnits, ps \in SeqsUpTo(Pauli, MaxDenseLen)}

\* the operators with_phase_and_paulis builds, up to the longer bound
UniformLeftOps ==
  {WithPhaseAndPaulis(x, ps) : x \in PhaseUnits, ps \in SeqsUpTo(Pauli, MaxUniformLen)}

\* with_paulis(vec![pauli; n])
Uniform(pauli, n) == WithPaulis([k \in 1..n |-> pauli])

\* the arguments of a sparse construction within the bound; a position may be
\* MaxLen, out of bound for every length
TryNewInputs ==
  [length : 0..MaxLen,
   positions : SeqsUpTo(0..MaxLen, MaxLen),
   values : SeqsUpTo(Pauli, MaxLen)]

NoInput == [length |-> 0, positions |-> <<>>, values |-> <<>>]

\* the sparse operators PauliOperator::new returns on these arguments
Constructible ==
  LET rs == {New(i.length, i.positions, i.values, s) : i \in TryNewInputs, s \in SprsBuilds}
  IN {r.val : r \in {x \in rs : x.tag = "Ok"}}

(***************************************************************************)
(* Single qubit Paulis and phases: the caller holds p, q and ph.           *)
(***************************************************************************)
InitPauli ==
  /\ p \in Pauli /\ q \in Pauli /\ ph \in PhaseUnits
  /\ da = DenseNew /\ db = DenseNew
  /\ sa = Empty /\ sb = Empty
  /\ tn = NoInput
  /\ call = NoCall

\* p.commutes_with(q)
CallPauliCommutesWith ==
  /\ call' = [op |-> "Pauli::commutes_with", res |-> PauliCommutesWith(p, q)]
  /\ UNCHANGED <<p, q, ph, da, db, sa, sb, tn>>

\* p.anticommutes_with(q)
CallPauliAnticommutesWith ==
  /\ call' = [op |-> "Pauli::anticommutes_with", res |-> PauliAnticommutesWith(p, q)]
  /\ UNCHANGED <<p, q, ph, da, db, sa, sb, tn>>

\* p * q
CallPauliMul ==
  /\ call' = [op |-> "Pauli::mul", res |-> PauliMul(p, q),
              swaps |-> PauliMulSteps(p, q, 0).swaps]
  /\ UNCHANGED <<p, q, ph, da, db, sa, sb, tn>>

\* p.multiply_with_phase(q)
CallMultiplyWithPhase ==
  /\ call' = [op |-> "Pauli::multiply_with_phase", res |-> MultiplyWithPhase(p, q)]
  /\ UNCHANGED <<p, q, ph, da, db, sa, sb, tn>>

\* p *= q (impl MulAssign<Pauli> for Pauli)
PauliMulAssign ==
  /\ p' = PauliMul(p, q)
  /\ call' = NoCall
  /\ UNCHANGED <<q, ph, da, db, sa, sb, tn>>

\* ph *= x (impl MulAssign<Phase> for Phase), x one of the four constructors
PhaseMulAssign ==
  \E x \in PhaseUnits :
    /\ ph' = PhaseMul(ph, x)
    /\ call' = NoCall
    /\ UNCHANGED <<p, q, da, db, sa, sb, tn>>

NextPauli ==
  \/ CallPauliCommutesWith
  \/ CallPauliAnticommutesWith
  \/ CallPauliMul
  \/ CallMultiplyWithPhase
  \/ PauliMulAssign
  \/ PhaseMulAssign

SpecPauli == InitPauli /\ [][NextPauli]_vars

(***************************************************************************)
(* Dense operators: the caller holds da and db.                            *)
(***************************************************************************)
InitDense ==
  /\ da \in DenseOps /\ db \in DenseOps
  /\ p = "I" /\ q = "I" /\ ph = One
  /\ sa = Empty /\ sb = Empty
  /\ tn = NoInput
  /\ call = NoCall

\* da.commutes_with(&db)
CallDenseCommutesWith ==
  /\ call' = [op |-> "Dense::commutes_with", res |-> DenseCommutesWith(da, db)]
  /\ UNCHANGED <<p, q, ph, da, db, sa, sb, tn>>

\* da.anticommutes_with(&db)
CallDenseAnticommutesWith ==
  /\ call' = [op |-> "Dense::anticommutes_with", res |-> DenseAnticommutesWith(da, db)]
  /\ UNCHANGED <<p, q, ph, da, db, sa, sb, tn>>

\* &da * &db
CallDenseMul ==
  /\ call' = [op |-> "Dense::mul", res |-> DenseMul(da, db)]
  /\ UNCHANGED <<p, q, ph, da, db, sa, sb, tn>>

\* &da * db.phase(): the operator times a Phase
CallDenseMulPhase ==
  /\ call' = [op |-> "Dense::mul_phase", rhs |-> db.phase,
              res |-> Ok(DenseMulPhase(da, db.phase))]
  /\ UNCHANGED <<p, q, ph, da, db, sa, sb, tn>>

\* &da * x, x a Pauli
CallDenseMulPauli ==
  \E x \in Pauli :
    /\ call' = [op |-> "Dense::mul_pauli", rhs |-> x, res |-> Ok(DenseMulPauli(da, x))]
    /\ UNCHANGED <<p, q, ph, da, db, sa, sb, tn>>

\* da.phase() * db.phase()
CallPhaseMul ==
  /\ call' = [op |-> "Phase::mul", res |-> PhaseMul(da.phase, db.phase)]
  /\ UNCHANGED <<p, q, ph, da, db, sa, sb, tn>>

IsDenseResult ==
  /\ call.op \in {"Dense::mul", "Dense::mul_phase", "Dense::mul_pauli"}
  /\ call.res.tag = "Ok"

\* let da = <the operator returned>: the product becomes an operand
KeepDenseLeft ==
  /\ IsDenseResult
  /\ da' = call.res.val
  /\ call' = NoCall
  /\ UNCHANGED <<p, q, ph, db, sa, sb, tn>>

\* let db = <the operator returned>
KeepDenseRight ==
  /\ IsDenseResult
  /\ db' = call.res.val
  /\ call' = NoCall
  /\ UNCHANGED <<p, q, ph, da, sa, sb, tn>>

\* let da = with_phase_and_paulis(<the phase returned>, da's paulis)
KeepPhase ==
  /\ call.op = "Phase::mul"
  /\ da' = WithPhaseAndPaulis(call.res, da.paulis)
  /\ call' = NoCall
  /\ UNCHANGED <<p, q, ph, db, sa, sb, tn>>

NextDense ==
  \/ CallDenseCommutesWith
  \/ CallDenseAnticommutesWith
  \/ CallDenseMul
  \/ CallDenseMulPhase
  \/ CallDenseMulPauli
  \/ CallPhaseMul
  \/ KeepDenseLeft
  \/ KeepDenseRight
  \/ KeepPhase

SpecDense == InitDense /\ [][NextDense]_vars

(***************************************************************************)
(* Sparse construction: the caller hands tn to try_new or new.             *)
(***************************************************************************)
InitTryNew ==
  /\ tn \in TryNewInputs
  /\ p = "I" /\ q = "I" /\ ph = One
  /\ da = DenseNew /\ db = DenseNew
  /\ sa = Empty /\ sb = Empty
  /\ call = NoCall

\* PauliOperator::try_new(tn.length, tn.positions, tn.values), on any build of sprs
CallTryNew ==
  \E s \in SprsBuilds :
    /\ call' = [op |-> "try_new", build |-> s,
                res |-> TryNew(tn.length, tn.positions, tn.values, s)]
    /\ UNCHANGED <<p, q, ph, da, db, sa, sb, tn>>

\* PauliOperator::new(tn.length, tn.positions, tn.values), on any build of sprs
CallNew ==
  \E s \in SprsBuilds :
    /\ call' = [op |-> "new", build |-> s,
                res |-> New(tn.length, tn.positions, tn.values, s)]
    /\ UNCHANGED <<p, q, ph, da, db, sa, sb, tn>>

\* let sa = <the operator returned>
KeepConstructed ==
  /\ call.op \in {"try_new", "new"}
  /\ call.res.tag = "Ok"
  /\ sa' = call.res.val
  /\ UNCHANGED <<p, q, ph, da, db, sb, tn, call>>

\* sa.weight()
CallWeight ==
  /\ call' = [op |-> "weight", res |-> Weight(sa)]
  /\ UNCHANGED <<p, q, ph, da, db, sa, sb, tn>>

NextTryNew ==
  \/ CallTryNew
  \/ CallNew
  \/ KeepConstructed
  \/ CallWeight

SpecTryNew == InitTryNew /\ [][NextTryNew]_vars

(***************************************************************************)
(* Sparse operators: the caller holds sa and sb, each built by new.        *)
(***************************************************************************)
InitSparse ==
  /\ sa \in Constructible /\ sb \in Constructible
  /\ p = "I" /\ q = "I" /\ ph = One
  /\ da = DenseNew /\ db = DenseNew
  /\ tn = NoInput
  /\ call = NoCall

\* sa.commutes_with(&sb)
CallSparseCommutesWith ==
  /\ call' = [op |-> "Sparse::commutes_with", res |-> SparseCommutesWith(sa, sb)]
  /\ UNCHANGED <<p, q, ph, da, db, sa, sb, tn>>

\* sa.anticommutes_with(&sb)
CallSparseAnticommutesWith ==
  /\ call' = [op |-> "Sparse::anticommutes_with", res |-> SparseAnticommutesWith(sa, sb)]
  /\ UNCHANGED <<p, q, ph, da, db, sa, sb, tn>>

\* sa.multiply_with(&sb)
CallMultiplyWith ==
  /\ call' = [op |-> "multiply_with", res |-> MultiplyWith(sa, sb)]
  /\ UNCHANGED <<p, q, ph, da, db, sa, sb, tn>>

\* sa.x_part()
CallXPart ==
  /\ call' = [op |-> "x_part", res |-> XPart(sa)]
  /\ UNCHANGED <<p, q, ph, da, db, sa, sb, tn>>

\* sa.z_part()
CallZPart ==
  /\ call' = [op |-> "z_part", res |-> ZPart(sa)]
  /\ UNCHANGED <<p, q, ph, da, db, sa, sb, tn>>

\* sa.partition_x_and_z()
CallPartitionXAndZ ==
  /\ call' = [op |-> "partition_x_and_z", res |-> PartitionXAndZ(sa)]
  /\ UNCHANGED <<p, q, ph, da, db, sa, sb, tn>>

\* sa.non_trivial_positions()
CallNonTrivialPositions ==
  /\ call' = [op |-> "non_trivial_positions", res |-> NonTrivialPositions(sa)]
  /\ UNCHANGED <<p, q, ph, da, db, sa, sb, tn>>

IsSparseResult ==
  /\ call.op \in {"multiply_with", "x_part", "z_part"}
  /\ call.res.tag = "Ok"

\* let sa = <the operator returned>: the derived operator becomes an operand
KeepSparseLeft ==
  /\ IsSparseResult
  /\ sa' = call.res.val
  /\ call' = NoCall
  /\ UNCHANGED <<p, q, ph, da, db, sb, tn>>

\* let sb = <the operator returned>
KeepSparseRight ==
  /\ IsSparseResult
  /\ sb' = call.res.val
  /\ call' = NoCall
  /\ UNCHANGED <<p, q, ph, da, db, sa, tn>>

NextSparse ==
  \/ CallSparseCommutesWith
  \/ CallSparseAnticommutesWith
  \/ CallMultiplyWith
  \/ CallXPart
  \/ CallZPart
  \/ CallPartitionXAndZ
  \/ CallWeight
  \/ CallNonTrivialPositions
  \/ KeepSparseLeft
  \/ KeepSparseRight

SpecSparse == InitSparse /\ [][NextSparse]_vars

(***************************************************************************)
(* A dense operator da next to a Pauli p, a Phase ph and the operator db   *)
(* that holds p at every position of da, as in the example of dense.rs.    *)
(***************************************************************************)
InitDenseUniform ==
  /\ da \in UniformLeftOps
  /\ p \in Pauli
  /\ ph \in PhaseUnits
  /\ db = Uniform(p, DenseLen(da))
  /\ q = "I"
  /\ sa = Empty /\ sb = Empty
  /\ tn = NoInput
  /\ call = NoCall

\* &da * p
CallDenseMulHeldPauli ==
  /\ call' = [op |-> "Dense::mul_pauli", rhs |-> p, res |-> Ok(DenseMulPauli(da, p))]
  /\ UNCHANGED <<p, q, ph, da, db, sa, sb, tn>>

\* p * &da
CallPauliMulDense ==
  /\ call' = [op |-> "Pauli::mul_dense", lhs |-> p, res |-> Ok(PauliMulDense(p, da))]
  /\ UNCHANGED <<p, q, ph, da, db, sa, sb, tn>>

\* &da * ph
CallDenseMulHeldPhase ==
  /\ call' = [op |-> "Dense::mul_phase", rhs |-> ph, res |-> Ok(DenseMulPhase(da, ph))]
  /\ UNCHANGED <<p, q, ph, da, db, sa, sb, tn>>

\* ph * &da
CallPhaseMulDense ==
  /\ call' = [op |-> "Phase::mul_dense", lhs |-> ph, res |-> Ok(PhaseMulDense(ph, da))]
  /\ UNCHANGED <<p, q, ph, da, db, sa, sb, tn>>

NextDenseUniform ==
  \/ CallDenseMulHeldPauli
  \/ CallPauliMulDense
  \/ CallDenseMulHeldPhase
  \/ CallPhaseMulDense
  \/ CallDenseMul
  \/ CallDenseCommutesWith
  \/ CallDenseAnticommutesWith

SpecDenseUniform == InitDenseUniform /\ [][NextDenseUniform]_vars

(***************************************************************************)
(* The three commutation tests side by side: the caller holds two Paulis,  *)
(* or two dense operators, or two sparse operators.                        *)
(***************************************************************************)
InitCommutes == InitPauli \/ InitDense \/ InitSparse

NextCommutes ==
  \/ CallPauliCommutesWith
  \/ CallDenseCommutesWith
  \/ CallSparseCommutesWith

SpecCommutes == InitCommutes /\ [][NextCommutes]_vars

(***************************************************************************)
(* Properties of the dense operator and of the phase group (SpecDense).    *)
(***************************************************************************)
\* the power of i a phase is: 1 = i^0, i = i^1, -1 = i^2, -i = i^3
PhaseExp(x) ==
  CASE x = One -> 0
    [] x = PhaseI -> 1
    [] x = MinusOne -> 2
    [] x = MinusI -> 3

\* the sum, over the first k positions, of the powers of i of the phases of
\* ps[j].multiply_with_phase(qs[j])
RECURSIVE SumPhaseExp(_, _, _)
SumPhaseExp(ps, qs, k) ==
  IF k = 0 THEN 0
  ELSE SumPhaseExp(ps, qs, k - 1) + PhaseExp(MultiplyWithPhase(ps[k], qs[k])[1])

\* C1: for dense operators a and b of equal length, a * b returns an operator
\* of that length whose Pauli at every position k is the phase-free product
\* a[k] * b[k] and whose phase is the product of the per-position phases of
\* a[k].multiply_with_phase(b[k]), of a's phase and of b's phase; and
\* (i, [I,X,Y,Z]) * (1, [X,Z,X,Z]) = (-i, [X,Y,Z,I]).
C1_DenseMulProduct ==
  /\ (call.op = "Dense::mul" /\ DenseLen(da) = DenseLen(db)) =>
       /\ call.res.tag = "Ok"
       /\ Len(call.res.val.paulis) = DenseLen(da)
       /\ \A k \in 1..DenseLen(da) :
            call.res.val.paulis[k] = PauliMul(da.paulis[k], db.paulis[k])
       /\ call.res.val.phase \in PhaseUnits
       /\ PhaseExp(call.res.val.phase) =
            (SumPhaseExp(da.paulis, db.paulis, DenseLen(da))
               + PhaseExp(da.phase) + PhaseExp(db.phase)) % 4
  /\ DenseMul(WithPhaseAndPaulis(PhaseI, <<"I", "X", "Y", "Z">>),
              WithPhaseAndPaulis(One, <<"X", "Z", "X", "Z">>))
       = Ok(WithPhaseAndPaulis(MinusI, <<"X", "Y", "Z", "I">>))

\* C1's case: a product of two operators of length 2 that anticommute at both
\* positions, neither of phase 1.
C1_Witness ==
  /\ call.op = "Dense::mul"
  /\ call.res.tag = "Ok"
  /\ DenseLen(da) = 2
  /\ \A k \in 1..2 : PauliAnticommutesWith(da.paulis[k], db.paulis[k])
  /\ da.phase = PhaseI /\ db.phase = MinusOne
  /\ call.res.val.phase # One

\* C4: the four constructors build (1,0), (-1,0), (0,1), (0,-1), and after any
\* sequence of Phase multiplications and dense multiplications (operator x
\* operator, operator x Phase, operator x Pauli) every Phase held or returned
\* is one of these four.
C4_PhaseClosed ==
  /\ PhaseUnits = {[re |-> 1, im |-> 0], [re |-> -1, im |-> 0],
                   [re |-> 0, im |-> 1], [re |-> 0, im |-> -1]}
  /\ da.phase \in PhaseUnits
  /\ db.phase \in PhaseUnits
  /\ call.op = "Phase::mul" => call.res \in PhaseUnits
  /\ (call.op \in {"Dense::mul", "Dense::mul_phase", "Dense::mul_pauli"}
        /\ call.res.tag = "Ok") => call.res.val.phase \in PhaseUnits

\* C4's case: i * i was computed and returned -1.
C4_Witness ==
  /\ call.op = "Phase::mul"
  /\ da.phase = PhaseI /\ db.phase = PhaseI
  /\ call.res = MinusOne

\* C9: for dense operators of different lengths, commutes_with,
\* anticommutes_with and * each panic: no boolean, no operator is returned.
C9_DenseMismatchPanics ==
  (call.op \in {"Dense::commutes_with", "Dense::anticommutes_with", "Dense::mul"}
     /\ DenseLen(da) # DenseLen(db)) => call.res = Panic

\* C9's case: commutes_with was called on operators of lengths 1 and 2.
C9_Witness ==
  /\ call.op = "Dense::commutes_with"
  /\ DenseLen(da) = 1 /\ DenseLen(db) = 2
  /\ call.res.tag = "Panic"

(***************************************************************************)
(* Properties of the single qubit Paulis (SpecPauli).                      *)
(***************************************************************************)
\* C10: multiply_with_phase(p, q) and multiply_with_phase(q, p) return the same
\* Pauli; when p and q anticommute one phase is i and the other -i (mutually
\* inverse), and when they commute both phases are 1.
C10_MultiplyWithPhaseSwap ==
  call.op = "Pauli::multiply_with_phase" =>
    LET fwd == call.res
        rev == MultiplyWithPhase(q, p)
    IN /\ fwd[2] = rev[2]
       /\ (p # "I" /\ q # "I" /\ p # q) =>
            /\ {fwd[1], rev[1]} = {PhaseI, MinusI}
            /\ PhaseMul(fwd[1], rev[1]) = One
       /\ (p = "I" \/ q = "I" \/ p = q) => (fwd[1] = One /\ rev[1] = One)

\* C10's case: multiply_with_phase was called on the anticommuting pair (Y, X).
C10_Witness ==
  /\ call.op = "Pauli::multiply_with_phase"
  /\ p = "Y" /\ q = "X"
  /\ call.res = <<MinusI, "Z">>

(***************************************************************************)
(* Properties of the sparse operator (SpecSparse, SpecTryNew).             *)
(***************************************************************************)
\* an entry is stored at pos
StoredAt(a, pos) == \E k \in 1..Len(a.indices) : a.indices[k] = pos

\* the Pauli a acts with at pos, the identity where nothing is stored:
\* a padded with identities
ValueAt(a, pos) ==
  IF StoredAt(a, pos)
  THEN a.data[CHOOSE k \in 1..Len(a.indices) : a.indices[k] = pos]
  ELSE "I"

\* two Paulis anticommute: both are not I and they differ
Anticommute(x, y) == x # "I" /\ y # "I" /\ x # y

Max(a, b) == IF a < b THEN b ELSE a

\* the positions stored in both operands whose two Paulis anticommute
AnticommutingOverlaps(a, b) ==
  {pos \in 0..(Max(a.dim, b.dim) - 1) :
     StoredAt(a, pos) /\ StoredAt(b, pos) /\ Anticommute(ValueAt(a, pos), ValueAt(b, pos))}

\* the positions where the operands, padded with identities, anticommute
AnticommutingPadded(a, b) ==
  {pos \in 0..(Max(a.dim, b.dim) - 1) : Anticommute(ValueAt(a, pos), ValueAt(b, pos))}

\* C2: for sparse operators of equal or different lengths, commutes_with is
\* true exactly when the number of positions stored in both operands whose
\* Paulis anticommute is even, which is the result on the operands padded with
\* identities; anticommutes_with is the negation.  The two tests on lengths 10
\* and 4 are instances.
C2_SparseCommutesParity ==
  /\ call.op = "Sparse::commutes_with" =>
       /\ call.res = (Cardinality(AnticommutingOverlaps(sa, sb)) % 2 = 0)
       /\ call.res = (Cardinality(AnticommutingPadded(sa, sb)) % 2 = 0)
  /\ call.op = "Sparse::anticommutes_with" =>
       call.res = (Cardinality(AnticommutingOverlaps(sa, sb)) % 2 = 1)
  /\ SparseCommutesWith(CsVec(10, <<0, 2, 7, 9>>, <<"X", "X", "X", "X">>),
                        CsVec(4, <<0, 1, 2>>, <<"Z", "Z", "Z">>))
  /\ SparseAnticommutesWith(CsVec(10, <<0, 2, 7, 9>>, <<"X", "Z", "X", "Z">>),
                            CsVec(4, <<0, 1, 2>>, <<"Z", "Z", "Z">>))

\* C2's case: operands of lengths 2 and 1, one anticommuting overlap at
\* position 0 and an entry of the longer operand beyond the shorter one.
C2_Witness ==
  /\ call.op = "Sparse::commutes_with"
  /\ sa.dim = 2 /\ sb.dim = 1
  /\ sa.indices = <<0, 1>> /\ sb.indices = <<0>>
  /\ Anticommute(sa.data[1], sb.data[1])
  /\ call.res = FALSE

\* C3: for sparse operators a and b of equal length n, multiply_with returns
\* Ok(r) with r of length n, r.get(pos) = a.get(pos) * b.get(pos) (phase-free)
\* at every pos < n, and an entry stored in r only where that product is not I.
C3_MultiplyWithPositionwise ==
  (call.op = "multiply_with" /\ SparseLen(sa) = SparseLen(sb)) =>
    /\ call.res.tag = "Ok"
    /\ SparseLen(call.res.val) = SparseLen(sa)
    /\ \A pos \in 0..(SparseLen(sa) - 1) :
         /\ Get(call.res.val, pos).some
         /\ Get(call.res.val, pos).val = PauliMul(Get(sa, pos).val, Get(sb, pos).val)
         /\ StoredAt(call.res.val, pos) =>
              PauliMul(Get(sa, pos).val, Get(sb, pos).val) # "I"

\* C3's case: both operands store entries at 0 and 1; the product at 0 is the
\* identity and is dropped, the product at 1 is kept.
C3_Witness ==
  /\ call.op = "multiply_with"
  /\ sa.indices = <<0, 1>> /\ sb.indices = <<0, 1>>
  /\ sa.data = <<"X", "X">> /\ sb.data = <<"X", "Y">>
  /\ call.res = Ok(CsVec(2, <<1>>, <<"Z">>))

\* C5 (as claimed): every sparse operator a successful construction returns,
\* and every operator multiply_with, x_part or z_part derives, stores no I, so
\* weight() is the number of positions pos < len() with get(pos) != I.
C5_NoStoredIdentity ==
  /\ (call.op \in {"try_new", "new", "multiply_with", "x_part", "z_part"}
        /\ call.res.tag = "Ok") =>
       /\ \A k \in 1..Len(call.res.val.data) : call.res.val.data[k] # "I"
       /\ Weight(call.res.val) =
            Cardinality({pos \in 0..(SparseLen(call.res.val) - 1) :
                           Get(call.res.val, pos).val # "I"})
  /\ call.op = "weight" =>
       call.res = Cardinality({pos \in 0..(SparseLen(sa) - 1) : Get(sa, pos).val # "I"})

\* the entries of a are at strictly increasing positions, each within the length
WellFormed(a) ==
  /\ Len(a.indices) = Len(a.data)
  /\ \A j, k \in 1..Len(a.indices) : j < k => a.indices[j] < a.indices[k]
  /\ \A k \in 1..Len(a.indices) : a.indices[k] \in 0..(a.dim - 1)

\* C6: after any sequence of successful constructions and of multiply_with,
\* x_part and z_part derivations, every sparse operator stores its positions
\* strictly increasing and below its length, and non_trivial_positions()
\* returns them in ascending order.  The derivations do not lean on the sparse
\* vector's constructor for this: the positions multiply_with hands to it are
\* already strictly increasing and below the length, and are stored as handed;
\* x_part and z_part store a subsequence of the operand's positions.
C6_SortedUniquePositions ==
  /\ WellFormed(sa)
  /\ WellFormed(sb)
  /\ (call.op = "multiply_with" /\ SparseLen(sa) = SparseLen(sb)) =>
       LET args == MultiplyWithArgs(sa, sb)
       IN /\ Len(args.positions) = Len(args.paulis)
          /\ \A j, k \in 1..Len(args.positions) :
               j < k => args.positions[j] < args.positions[k]
          /\ \A k \in 1..Len(args.positions) : args.positions[k] < args.length
          /\ call.res = Ok(CsVec(args.length, args.positions, args.paulis))
  /\ call.op \in {"x_part", "z_part"} =>
       /\ call.res.tag = "Ok"
       /\ WellFormed(call.res.val)
       /\ \A k \in 1..Len(call.res.val.indices) :
            StoredAt(sa, call.res.val.indices[k])
  /\ call.op = "non_trivial_positions" =>
       /\ Len(call.res) = Weight(sa)
       /\ \A k \in 1..Len(call.res) : StoredAt(sa, call.res[k])
       /\ \A j, k \in 1..Len(call.res) : j < k => call.res[j] < call.res[k]

\* C6's case: a product interleaving an entry of the right operand (at 0) with
\* one of the left operand (at 1).
C6_Witness ==
  /\ call.op = "multiply_with"
  /\ sa.indices = <<1>> /\ sb.indices = <<0>>
  /\ MultiplyWithArgs(sa, sb).positions = <<0, 1>>
  /\ call.res.tag = "Ok"
  /\ call.res.val.indices = <<0, 1>>

\* the first listed position that is not below length
FirstOutOfBound(positions, length) ==
  positions[CHOOSE k \in 1..Len(positions) :
              /\ positions[k] >= length
              /\ \A j \in 1..(k - 1) : positions[j] < length]

\* C7: try_new(length, positions, values) returns
\* Err(IncompatibleLength(positions.len(), values.len())) when the counts
\* differ, otherwise Err(OutOfBound(pos, length)) for the first listed position
\* pos >= length, and an operator only when neither holds; length 4, positions
\* [5], values [X] gives OutOfBound(5, 4).
C7_TryNewErrors ==
  /\ call.op = "try_new" =>
       /\ Len(tn.positions) # Len(tn.values) =>
            call.res = Err(IncompatibleLength(Len(tn.positions), Len(tn.values)))
       /\ (Len(tn.positions) = Len(tn.values)
             /\ \E k \in 1..Len(tn.positions) : tn.positions[k] >= tn.length) =>
            call.res = Err(OutOfBound(FirstOutOfBound(tn.positions, tn.length), tn.length))
       /\ call.res.tag = "Ok" =>
            /\ Len(tn.positions) = Len(tn.values)
            /\ \A k \in 1..Len(tn.positions) : tn.positions[k] < tn.length
       /\ call.res.tag = "Err" => DOMAIN call.res = {"tag", "err"}
  /\ \A s \in SprsBuilds : TryNew(4, <<5>>, <<"X">>, s) = Err(OutOfBound(5, 4))

\* C7's case: two positions out of bound, the first listed being the larger.
C7_Witness ==
  /\ call.op = "try_new"
  /\ tn.length = 1 /\ tn.positions = <<2, 1>> /\ Len(tn.values) = 2
  /\ call.res = Err(OutOfBound(2, 1))

\* C8: for sparse operators of different lengths, multiply_with returns
\* Err(IncompatibleLength(a.len(), b.len())) and no operator (lengths 5 and 4
\* give IncompatibleLength(5, 4)), while commutes_with returns a boolean.
C8_MultiplyWithLengthError ==
  /\ (call.op = "multiply_with" /\ SparseLen(sa) # SparseLen(sb)) =>
       call.res = Err(IncompatibleLength(SparseLen(sa), SparseLen(sb)))
  /\ (call.op = "Sparse::commutes_with" /\ SparseLen(sa) # SparseLen(sb)) =>
       call.res \in BOOLEAN
  /\ MultiplyWith(CsVec(5, <<1, 2, 3>>, <<"X", "Y", "Z">>),
                  CsVec(4, <<0, 1>>, <<"Z", "Z">>))
       = Err(IncompatibleLength(5, 4))
  /\ SparseCommutesWith(CsVec(5, <<1, 2, 3>>, <<"X", "Y", "Z">>),
                        CsVec(4, <<0, 1>>, <<"Z", "Z">>)) = FALSE

\* C8's case: multiply_with was called on operands of lengths 2 and 1.
C8_Witness ==
  /\ call.op = "multiply_with"
  /\ SparseLen(sa) = 2 /\ SparseLen(sb) = 1
  /\ call.res = Err(IncompatibleLength(2, 1))

(***************************************************************************)
(* Further properties of the Paulis and of the sparse operator.            *)
(***************************************************************************)
\* C11: commutes_with is symmetric: the result on (a, b) is the result on
\* (b, a), for Paulis, for sparse operators of equal or different lengths, and
\* for dense operators of equal length.
C11_CommutesSymmetric ==
  /\ call.op = "Pauli::commutes_with" => call.res = PauliCommutesWith(q, p)
  /\ call.op = "Sparse::commutes_with" => call.res = SparseCommutesWith(sb, sa)
  /\ (call.op = "Dense::commutes_with" /\ DenseLen(da) = DenseLen(db)) =>
       /\ call.res.tag = "Ok"
       /\ call.res = DenseCommutesWith(db, da)

\* C11's case: sparse operators of lengths 1 and 2 that anticommute, the left
\* one storing X at 0 and the right one storing Z at 0 and an entry at 1.
C11_Witness ==
  /\ call.op = "Sparse::commutes_with"
  /\ sa = CsVec(1, <<0>>, <<"X">>)
  /\ sb.dim = 2 /\ sb.indices = <<0, 1>> /\ sb.data[1] = "Z"
  /\ call.res = FALSE

\* C12: phase-free multiplication returns a Pauli on each of the 16 ordered
\* pairs, is commutative, has I * p = p, p * p = I, X*Y = Z, Y*Z = X, Z*X = Y,
\* and its q * p fallback recurses at most once.
C12_PauliMulCommutative ==
  call.op = "Pauli::mul" =>
    /\ call.res \in Pauli
    /\ call.res = PauliMul(q, p)
    /\ p = "I" => call.res = q
    /\ p = q => call.res = "I"
    /\ (p = "X" /\ q = "Y") => call.res = "Z"
    /\ (p = "Y" /\ q = "Z") => call.res = "X"
    /\ (p = "Z" /\ q = "X") => call.res = "Y"
    /\ call.swaps \in {0, 1}

\* C12's case: X * Z, answered by the fallback after one swap.
C12_Witness ==
  /\ call.op = "Pauli::mul"
  /\ p = "X" /\ q = "Z"
  /\ call.res = "Y"
  /\ call.swaps = 1

\* C13: for every sparse operator op, op.multiply_with(op) is Ok and is the
\* all-identity operator of op's length: weight 0, no stored position.
C13_MultiplyWithSelf ==
  (call.op = "multiply_with" /\ sa = sb) =>
    /\ call.res.tag = "Ok"
    /\ Weight(call.res.val) = 0
    /\ NonTrivialPositions(call.res.val) = <<>>
    /\ SparseLen(call.res.val) = SparseLen(sa)

\* C13's case: an operator with two non-identity entries multiplied by itself.
C13_Witness ==
  /\ call.op = "multiply_with"
  /\ sa = sb
  /\ sa = CsVec(2, <<0, 1>>, <<"X", "Y">>)
  /\ call.res = Ok(CsVec(2, <<>>, <<>>))

\* C14 (as claimed): for every constructible sparse operator op,
\* partition_x_and_z returns (x, z) with x storing only X, z storing only Z,
\* both of op's length, and x.multiply_with(z) equal to op.
C14_PartitionProduct ==
  call.op = "partition_x_and_z" =>
    /\ call.res.x.tag = "Ok" /\ call.res.z.tag = "Ok"
    /\ \A k \in 1..Len(call.res.x.val.data) : call.res.x.val.data[k] = "X"
    /\ \A k \in 1..Len(call.res.z.val.data) : call.res.z.val.data[k] = "Z"
    /\ SparseLen(call.res.x.val) = SparseLen(sa)
    /\ SparseLen(call.res.z.val) = SparseLen(sa)
    /\ MultiplyWith(call.res.x.val, call.res.z.val) = Ok(sa)

(***************************************************************************)
(* Further properties of the dense operator (SpecDenseUniform, SpecDense). *)
(***************************************************************************)
\* C15: the dense product of (phase i, [X, Y, Z]) and
\* (phase 1, [X, X, X]) is (phase 1, [I, Z, Y]), and the two commute.
C15_DocExampleProduct ==
  (/\ da = WithPhaseAndPaulis(PhaseI, <<"X", "Y", "Z">>)
   /\ db = WithPaulis(<<"X", "X", "X">>)) =>
    /\ call.op = "Dense::mul" =>
         call.res = Ok(WithPhaseAndPaulis(One, <<"I", "Z", "Y">>))
    /\ call.op = "Dense::commutes_with" => call.res = Ok(TRUE)

\* C16: op * P and P * op are the same new operator: of op's length, its Pauli
\* at every position k the phase-free product op[k] * P, its phase op's phase
\* times the product of the phases of op[k].multiply_with_phase(P); and
\* (-1, [Y, X, Z, I]) times Z is (-1, [X, Y, I, Z]) from either side.
C16_DenseTimesPauli ==
  /\ call.op \in {"Dense::mul_pauli", "Pauli::mul_dense"} =>
       /\ call.res.tag = "Ok"
       /\ Len(call.res.val.paulis) = DenseLen(da)
       /\ \A k \in 1..DenseLen(da) :
            call.res.val.paulis[k] = PauliMul(da.paulis[k], p)
       /\ call.res.val.phase \in PhaseUnits
       /\ PhaseExp(call.res.val.phase) =
            (PhaseExp(da.phase)
               + SumPhaseExp(da.paulis, [k \in 1..DenseLen(da) |-> p], DenseLen(da))) % 4
  /\ call.op = "Dense::mul_pauli" => call.res.val = PauliMulDense(p, da)
  /\ call.op = "Pauli::mul_dense" => call.res.val = DenseMulPauli(da, p)
  /\ DenseMulPauli(WithPhaseAndPaulis(MinusOne, <<"Y", "X", "Z", "I">>), "Z")
       = WithPhaseAndPaulis(MinusOne, <<"X", "Y", "I", "Z">>)
  /\ PauliMulDense("Z", WithPhaseAndPaulis(MinusOne, <<"Y", "X", "Z", "I">>))
       = WithPhaseAndPaulis(MinusOne, <<"X", "Y", "I", "Z">>)

\* C16's case: Y * op on an operator of length 3 with exactly one position
\* that anticommutes with Y.
C16_Witness ==
  /\ call.op = "Pauli::mul_dense"
  /\ p = "Y"
  /\ da = WithPhaseAndPaulis(MinusOne, <<"X", "Y", "I">>)
  /\ call.res = Ok(WithPhaseAndPaulis(MinusI, <<"Z", "I", "Y">>))

\* C17: for dense operators a and b of equal length, a.commutes_with(b) is
\* true exactly when a * b equals b * a, a.anticommutes_with(b) is true
\* exactly when a * b equals Phase::minus_one() * (b * a), and exactly one of
\* the two tests is true.
C17_DenseParityAgreesWithMul ==
  DenseLen(da) = DenseLen(db) =>
    LET ab == DenseMul(da, db)
        ba == DenseMul(db, da)
    IN /\ call.op = "Dense::commutes_with" =>
            /\ call.res.tag = "Ok"
            /\ call.res.val <=> (ab = ba)
            /\ call.res.val <=> ~DenseAnticommutesWith(da, db).val
       /\ call.op = "Dense::anticommutes_with" =>
            /\ call.res.tag = "Ok"
            /\ call.res.val <=> (ab.val = PhaseMulDense(MinusOne, ba.val))
            /\ call.res.val <=> ~DenseCommutesWith(da, db).val

\* C17's case: anticommutes_with answered false on operators of length 2 that
\* anticommute at both positions.
C17_Witness ==
  /\ call.op = "Dense::anticommutes_with"
  /\ DenseLen(da) = 2 /\ DenseLen(db) = 2
  /\ \A k \in 1..2 : PauliAnticommutesWith(da.paulis[k], db.paulis[k])
  /\ call.res = Ok(FALSE)

\* C18 (as claimed): with u = with_paulis(vec![P; op.len()]), op * P equals
\* op * u and P * op equals u * op.
C18_UniformEquivalence ==
  /\ call.op = "Dense::mul_pauli" => call.res = DenseMul(da, db)
  /\ call.op = "Pauli::mul_dense" => call.res = DenseMul(db, da)

\* C18 (amended): with u = with_paulis(vec![P; op.len()]), op * P equals
\* op * u, and P * op equals op * u as well; P * op equals u * op when the
\* number of positions of op that anticommute with P is even, and
\* Phase::minus_one() * (u * op) when it is odd.
C18_UniformRightEquivalence ==
  /\ call.op = "Dense::mul_pauli" => call.res = DenseMul(da, db)
  /\ call.op = "Pauli::mul_dense" =>
       /\ call.res = DenseMul(da, db)
       /\ IF DenseAnticommutingCount(da, db) % 2 = 0
          THEN call.res = DenseMul(db, da)
          ELSE call.res.val = PhaseMulDense(MinusOne, DenseMul(db, da).val)

\* C18's case: Y * op on the operator [X], where Y * X and X * Y differ.
C18_Witness ==
  /\ call.op = "Pauli::mul_dense"
  /\ p = "Y"
  /\ da = WithPaulis(<<"X">>)
  /\ call.res = Ok(WithPhaseAndPaulis(PhaseI, <<"Z">>))
  /\ DenseMul(db, da) = Ok(WithPhaseAndPaulis(MinusI, <<"Z">>))

====
